---------------------------- MODULE Spec2Model ----------------------------
(***************************************************************************)
(* The tinytodo-types entity store and its authorization gateway.          *)
(*                                                                         *)
(*   src/tinytodo-types/src/entitystore.rs   EntityStore, SealedBundle     *)
(*   src/tinytodo-types/src/witnesses.rs     AuthWitness, is_authorized,   *)
(*                                           the capability traits         *)
(*                                                                         *)
(* Four specifications are given.                                          *)
(*   Spec       a caller that starts from EntityStore::default() and owns  *)
(*              only the proofs is_authorized has returned to it.          *)
(*   StoreSpec  the EntityStore methods on their own, every method         *)
(*              callable: the proof parameters are `_proof`, unused in the *)
(*              bodies, so the store's own contract is over any caller     *)
(*              that presents a proof of the demanded capability.          *)
(*   LoadedSpec, LoadedStoreSpec                                           *)
(*              the same two, started from a store that was deserialized   *)
(*              from a persisted record rather than built from default().  *)
(***************************************************************************)
EXTENDS Integers, Sequences, FiniteSets, TLC

VARIABLES
    users,      \* EntityStore.users : HashMap<EntityUid, User>
    teams,      \* EntityStore.teams : HashMap<EntityUid, Team>
    lists,      \* EntityStore.lists : HashMap<EntityUid, List>
    app,        \* EntityStore.app   : Application
    uid,        \* EntityStore.uid   : usize, the fresh-id counter
    proofs,     \* the AuthWitness values the caller owns
    bundles,    \* the SealedBundle values the caller owns
    last,       \* the call that was made last, its arguments and what it returned
    minted,     \* the textual ids fresh_euid has generated, in order
    kept,       \* observer: entities an insert stored, each until its key is touched
    gone        \* observer: ids a delete_entity removed, each until an insert of it

vars == <<users, teams, lists, app, uid, proofs, bundles, last, minted, kept, gone>>

\* the same variables, the name of the last call first: a step that makes a
\* different call differs in its first component
step == <<last.op, vars>>

---------------------------------------------------------------------------
(* Bounds of the model.                                                    *)

MaxUid == 2         \* fresh_euid is called while the counter is below this
MaxListId == 0      \* lists a caller builds are named Format(0..MaxListId)
MaxProofs == 1      \* proofs the caller owns at one time
MaxBundles == 1     \* sealed bundles the caller owns at one time

---------------------------------------------------------------------------
(* Identifiers.                                                            *)

Digit(d) ==
    CASE d = 0 -> "0" [] d = 1 -> "1" [] d = 2 -> "2" [] d = 3 -> "3"
      [] d = 4 -> "4" [] d = 5 -> "5" [] d = 6 -> "6" [] d = 7 -> "7"
      [] d = 8 -> "8" [] d = 9 -> "9"

\* format!("{}", self.uid): the counter in decimal, most significant digit first
RECURSIVE Format(_)
Format(n) == IF n < 10 THEN Digit(n) ELSE Format(n \div 10) \o Digit(n % 10)

TYPE_USER == "User"
TYPE_TEAM == "Team"
TYPE_LIST == "List"
TYPE_APP  == "Application"
EntityTypeName == {TYPE_USER, TYPE_TEAM, TYPE_LIST, TYPE_APP}

\* cedar_policy::EntityUid::from_type_name_and_id(ty, id).into()
from_type_name_and_id(ty, id) == [ty |-> ty, id |-> id]

\* The typed identifiers: each accepts the kinds listed here.
Accepts(T) ==
    CASE T = "UserUid"       -> {TYPE_USER}
      [] T = "TeamUid"       -> {TYPE_TEAM}
      [] T = "ListUid"       -> {TYPE_LIST}
      [] T = "UserOrTeamUid" -> {TYPE_USER, TYPE_TEAM}
TypedUid == {"UserUid", "TeamUid", "ListUid", "UserOrTeamUid"}

Ok(v) == [ok |-> TRUE, val |-> v]
Err(kind, v) == [ok |-> FALSE, err |-> kind, val |-> v]

\* T::try_from(euid): fails when the kind tag is not one T accepts
try_from(T, euid) ==
    IF euid.ty \in Accepts(T) THEN Ok(euid) ELSE Err("KindMismatch", euid)

\* The text ids a caller names its entities with.
ListIdText == {Format(n) : n \in 0..MaxListId}
TeamIdText == {"x"}
UserIdText == {"x"}

UserUid == {from_type_name_and_id(TYPE_USER, i) : i \in UserIdText}
TeamUid == {from_type_name_and_id(TYPE_TEAM, i) : i \in TeamIdText}
ListUid == {from_type_name_and_id(TYPE_LIST, i) : i \in ListIdText}
UserOrTeamUid == UserUid \cup TeamUid
EntityUid == UserUid \cup TeamUid \cup ListUid

APPLICATION_TINY_TODO == from_type_name_and_id(TYPE_APP, "TinyTodo")

---------------------------------------------------------------------------
(* Entities.                                                               *)

TeamX == from_type_name_and_id(TYPE_TEAM, "x")
Team0 == from_type_name_and_id(TYPE_TEAM, Format(0))

\* User: id, joined teams
User == [uid : UserUid, parents : {{}, {TeamX}}]
\* Team: id, parent teams
Team == [uid : TeamUid, parents : {{}, {TeamX}}]
\* List: id, owner, readers, editors
List == [uid : ListUid, owner : UserUid, readers : {TeamX, Team0}, editors : {TeamX}]
\* Application: the singleton
Application == [uid |-> APPLICATION_TINY_TODO]

---------------------------------------------------------------------------
(* HashMap.                                                                *)

\* HashMap::insert(k, v): a prior value under k is replaced
Put(m, k, v) == [x \in (DOMAIN m) \cup {k} |-> IF x = k THEN v ELSE m[x]]
\* HashMap::remove(k)
Remove(m, k) == [x \in (DOMAIN m) \ {k} |-> m[x]]
EmptyMap == [x \in {} |-> x]

---------------------------------------------------------------------------
(* EntityStore, as a value: the methods below are functions of `self`.     *)

self == [users |-> users, teams |-> teams, lists |-> lists, app |-> app, uid |-> uid]

\* EntityStore::default()
Default == [users |-> EmptyMap, teams |-> EmptyMap, lists |-> EmptyMap,
            app |-> Application, uid |-> 0]

\* euids with the application's id left out of the chain
euids_without_app(S) == (DOMAIN S.users) \cup (DOMAIN S.teams) \cup (DOMAIN S.lists)

\* euids(): the keys of the three maps, then the application's id
euids(S) == (DOMAIN S.users) \cup (DOMAIN S.teams) \cup (DOMAIN S.lists) \cup {S.app.uid}

\* user.clone().into(), team.clone().into(), ...: the engine's entity, which
\* carries the id the value holds (not the key it is filed under)
into_entity(e) == [uid |-> e.uid, attrs |-> e]

\* Entities::from_entities(all, schema)
from_entities(all) == [entities |-> all]

\* as_entities with the teams left out of the chain
as_entities_without_teams(S) ==
    LET us == {into_entity(S.users[k]) : k \in DOMAIN S.users}
        ls == {into_entity(S.lists[k]) : k \in DOMAIN S.lists}
        ap == {into_entity(S.app)}
    IN  [sealed |-> from_entities(us \cup ls \cup ap)]

\* as_entities(): SealedBundle(Entities) over the values of the three maps and app
as_entities(S) ==
    LET us == {into_entity(S.users[k]) : k \in DOMAIN S.users}
        ts == {into_entity(S.teams[k]) : k \in DOMAIN S.teams}
        ls == {into_entity(S.lists[k]) : k \in DOMAIN S.lists}
        ap == {into_entity(S.app)}
    IN  [sealed |-> from_entities(us \cup ts \cup ls \cup ap)]

\* SealedBundle::unwrap(self, _proof)
unwrap(bundle) == bundle.sealed

\* the identifiers an Entities value holds
EntityIds(entities) == {e.uid : e \in entities.entities}

\* euid_exists that forgets the lists
euid_exists_without_lists(S, euid) ==
    \/ euid \in DOMAIN S.teams
    \/ euid \in DOMAIN S.users
    \/ S.app.uid = euid

euid_exists(S, euid) ==
    \/ euid \in DOMAIN S.lists
    \/ euid \in DOMAIN S.teams
    \/ euid \in DOMAIN S.users
    \/ S.app.uid = euid

\* The loop of fresh_euid: format the counter, increment it, build the id of
\* the requested kind, and go round again when the store already holds it.
RECURSIVE fresh_loop(_, _, _)
\* the loop with a second `self.uid += 1` on the retry path
fresh_loop_stride_two(S, ty, n) ==
    LET new_uid == Format(S.uid)
        S1 == [S EXCEPT !.uid = @ + 1]
        euid == from_type_name_and_id(ty, new_uid)
    IN  IF ~euid_exists(S1, euid)
        THEN [self |-> S1, euid |-> euid, iterations |-> n + 1]
        ELSE fresh_loop([S1 EXCEPT !.uid = @ + 1], ty, n + 1)

fresh_loop(S, ty, n) ==
    LET new_uid == Format(S.uid)
        S1 == [S EXCEPT !.uid = @ + 1]
        euid == from_type_name_and_id(ty, new_uid)
    IN  IF ~euid_exists(S1, euid)
        THEN [self |-> S1, euid |-> euid, iterations |-> n + 1]
        ELSE fresh_loop(S1, ty, n + 1)

fresh_euid(S, ty, T) ==
    LET r == fresh_loop(S, ty, 0)
    IN  [self |-> r.self, ret |-> try_from(T, r.euid), iterations |-> r.iterations]

insert_user(S, e) == [S EXCEPT !.users = Put(@, e.uid, e)]

\* insert_team filing the team in the lists map
insert_team_into_lists(S, e) == [S EXCEPT !.lists = Put(@, e.uid, e)]

insert_team(S, e) == [S EXCEPT !.teams = Put(@, e.uid, e)]

\* insert_list that leaves a prior entry in place (entry().or_insert)
insert_list_keep_prior(S, e) ==
    IF e.uid \in DOMAIN S.lists THEN S ELSE [S EXCEPT !.lists = Put(@, e.uid, e)]

\* insert_list that starts the map afresh
insert_list_clearing(S, e) == [S EXCEPT !.lists = Put(EmptyMap, e.uid, e)]

insert_list(S, e) == [S EXCEPT !.lists = Put(@, e.uid, e)]

\* delete_entity whose team branch removes from the lists map
delete_entity_wrong_map(S, r) ==
    IF r \in DOMAIN S.users
    THEN [self |-> [S EXCEPT !.users = Remove(@, r)], ret |-> Ok("unit")]
    ELSE IF r \in DOMAIN S.teams
    THEN [self |-> [S EXCEPT !.lists = Remove(@, r)], ret |-> Ok("unit")]
    ELSE IF r \in DOMAIN S.lists
    THEN [self |-> [S EXCEPT !.lists = Remove(@, r)], ret |-> Ok("unit")]
    ELSE [self |-> S, ret |-> Err("NoSuchEntity", r)]

\* delete_entity that hands the last id back to the counter
delete_entity_reclaims_id(S, r) ==
    LET T == [S EXCEPT !.uid = IF @ > 0 THEN @ - 1 ELSE @]
    IN  IF r \in DOMAIN S.users
        THEN [self |-> [T EXCEPT !.users = Remove(@, r)], ret |-> Ok("unit")]
        ELSE IF r \in DOMAIN S.teams
        THEN [self |-> [T EXCEPT !.teams = Remove(@, r)], ret |-> Ok("unit")]
        ELSE IF r \in DOMAIN S.lists
        THEN [self |-> [T EXCEPT !.lists = Remove(@, r)], ret |-> Ok("unit")]
        ELSE [self |-> S, ret |-> Err("NoSuchEntity", r)]

\* delete_entity that reports success when no map holds the id
delete_entity_ok_when_absent(S, r) ==
    IF r \in DOMAIN S.users
    THEN [self |-> [S EXCEPT !.users = Remove(@, r)], ret |-> Ok("unit")]
    ELSE IF r \in DOMAIN S.teams
    THEN [self |-> [S EXCEPT !.teams = Remove(@, r)], ret |-> Ok("unit")]
    ELSE [self |-> [S EXCEPT !.lists = Remove(@, r)], ret |-> Ok("unit")]

delete_entity(S, r) ==
    IF r \in DOMAIN S.users
    THEN [self |-> [S EXCEPT !.users = Remove(@, r)], ret |-> Ok("unit")]
    ELSE IF r \in DOMAIN S.teams
    THEN [self |-> [S EXCEPT !.teams = Remove(@, r)], ret |-> Ok("unit")]
    ELSE IF r \in DOMAIN S.lists
    THEN [self |-> [S EXCEPT !.lists = Remove(@, r)], ret |-> Ok("unit")]
    ELSE [self |-> S, ret |-> Err("NoSuchEntity", r)]

get_user(S, euid) ==
    IF euid \in DOMAIN S.users THEN Ok(S.users[euid]) ELSE Err("NoSuchEntity", euid)

get_user_mut(S, euid) ==
    IF euid \in DOMAIN S.users THEN Ok(S.users[euid]) ELSE Err("NoSuchEntity", euid)

get_team(S, euid) ==
    IF euid \in DOMAIN S.teams THEN Ok(S.teams[euid]) ELSE Err("NoSuchEntity", euid)

get_team_mut(S, euid) ==
    IF euid \in DOMAIN S.teams THEN Ok(S.teams[euid]) ELSE Err("NoSuchEntity", euid)

\* get_user_or_team_mut that looks in teams first
get_user_or_team_mut_teams_first(S, euid) ==
    IF euid \in DOMAIN S.teams
    THEN [map |-> "teams", ret |-> Ok(S.teams[euid])]
    ELSE IF euid \in DOMAIN S.users
    THEN [map |-> "users", ret |-> Ok(S.users[euid])]
    ELSE [map |-> "none", ret |-> Err("NoSuchEntity", euid)]

\* users first, teams second; the map the hit was in is returned with it
get_user_or_team_mut(S, euid) ==
    IF euid \in DOMAIN S.users
    THEN [map |-> "users", ret |-> Ok(S.users[euid])]
    ELSE IF euid \in DOMAIN S.teams
    THEN [map |-> "teams", ret |-> Ok(S.teams[euid])]
    ELSE [map |-> "none", ret |-> Err("NoSuchEntity", euid)]

get_list(S, euid) ==
    IF euid \in DOMAIN S.lists THEN Ok(S.lists[euid]) ELSE Err("NoSuchEntity", euid)

get_list_mut(S, euid) ==
    IF euid \in DOMAIN S.lists THEN Ok(S.lists[euid]) ELSE Err("NoSuchEntity", euid)

\* What a caller does through the &mut it was handed: the entity's own
\* methods change its memberships or its sharing, never its id.
set_parents(e, ps) == [e EXCEPT !.parents = ps]
set_readers(l, r) == [l EXCEPT !.readers = r]

---------------------------------------------------------------------------
(* Capabilities and actions (witnesses.rs).                                *)

Capability == {"ReadList", "WriteList", "Delete", "ReadUser", "WriteUser", "ReadTeam",
               "WriteTeam", "WriteTeamUser", "ReadAll", "CreateUser", "CreateList",
               "CreateTeam"}

Action == {"CreateList", "GetList", "GetLists", "UpdateList", "DeleteList",
           "CreateTask", "UpdateTask", "DeleteTask", "EditShare"}

\* A::action(): the fixed action id of A
action(A) == [ty |-> "Action", id |-> A]

\* the impl blocks with `impl ReadList for AuthWitness<EditShare>` missing
impls_edit_share_write_only(A) ==
    CASE A = "CreateList" -> {"CreateList", "CreateTeam"}
      [] A = "GetList"    -> {"ReadList"}
      [] A = "GetLists"   -> {"ReadAll"}
      [] A = "UpdateList" -> {"WriteList"}
      [] A = "DeleteList" -> {"Delete"}
      [] A = "CreateTask" -> {"WriteList"}
      [] A = "UpdateTask" -> {"WriteList"}
      [] A = "DeleteTask" -> {"WriteList"}
      [] A = "EditShare"  -> {"WriteTeamUser"}

\* the impl blocks with an `impl CreateUser for AuthWitness<CreateList>` added
impls_create_list_creates_users(A) ==
    CASE A = "CreateList" -> {"CreateList", "CreateTeam", "CreateUser"}
      [] A = "GetList"    -> {"ReadList"}
      [] A = "GetLists"   -> {"ReadAll"}
      [] A = "UpdateList" -> {"WriteList"}
      [] A = "DeleteList" -> {"Delete"}
      [] A = "CreateTask" -> {"WriteList"}
      [] A = "UpdateTask" -> {"WriteList"}
      [] A = "DeleteTask" -> {"WriteList"}
      [] A = "EditShare"  -> {"WriteTeamUser", "ReadList"}

\* impl super::<capability> for AuthWitness<A> {}
impls(A) ==
    CASE A = "CreateList" -> {"CreateList", "CreateTeam"}
      [] A = "GetList"    -> {"ReadList"}
      [] A = "GetLists"   -> {"ReadAll"}
      [] A = "UpdateList" -> {"WriteList"}
      [] A = "DeleteList" -> {"Delete"}
      [] A = "CreateTask" -> {"WriteList"}
      [] A = "UpdateTask" -> {"WriteList"}
      [] A = "DeleteTask" -> {"WriteList"}
      [] A = "EditShare"  -> {"WriteTeamUser", "ReadList"}

\* AuthWitness<A> { marker: PhantomData }
AuthWitness(A) == [marker |-> A]

\* struct InternalProof; impl ReadAll for InternalProof {}
InternalProof == [marker |-> "InternalProof"]

---------------------------------------------------------------------------
(* The policy engine, an oracle outside the repository: a decision is a    *)
(* function of the request, the policies and the entities.  A policy is a  *)
(* permit or a forbid with a scope and, for `owner`, a condition on the    *)
(* entities; a forbid that applies overrides every permit, and no permit   *)
(* means Deny.                                                             *)

AnyPrincipal == [ty |-> "*", id |-> "*"]
UserY == from_type_name_and_id(TYPE_USER, "y")
UserX == from_type_name_and_id(TYPE_USER, "x")

permit_any == [id |-> "permit_any", effect |-> "permit", principal |-> AnyPrincipal, when |-> "true"]
forbid_y == [id |-> "forbid_y", effect |-> "forbid", principal |-> UserY, when |-> "true"]
permit_owner == [id |-> "permit_owner", effect |-> "permit", principal |-> AnyPrincipal, when |-> "owner"]

PolicySet == {{}, {permit_any}, {permit_owner}, {permit_any, forbid_y}}

Request(principal, act, resource, context) ==
    [principal |-> principal, action |-> act, resource |-> resource, context |-> context]

Applies(policy, r, entities) ==
    /\ policy.principal \in {AnyPrincipal, r.principal}
    /\ \/ policy.when = "true"
       \/ /\ policy.when = "owner"
          /\ \E e \in entities.entities :
                /\ e.uid = r.resource
                /\ e.uid.ty = TYPE_LIST
                /\ e.attrs.owner = r.principal

\* Authorizer::new().is_authorized(&r, policies, &entities)
Authorizer_is_authorized(r, policies, entities) ==
    LET forbids == {q \in policies : q.effect = "forbid" /\ Applies(q, r, entities)}
        permits == {q \in policies : q.effect = "permit" /\ Applies(q, r, entities)}
    IN  IF forbids # {} THEN [decision |-> "Deny", diagnostics |-> {q.id : q \in forbids}]
        ELSE IF permits # {} THEN [decision |-> "Allow", diagnostics |-> {q.id : q \in permits}]
        ELSE [decision |-> "Deny", diagnostics |-> {}]

\* is_authorized that returns the proof whatever the decision
is_authorized_ignoring_decision(A, principal, resource, entities, policies) ==
    Ok(AuthWitness(A))

\* is_authorized that builds its request with principal and resource swapped
is_authorized_swapped(A, principal, resource, entities, policies) ==
    LET r == Request(resource, action(A), principal, "empty")
        unsealed == unwrap(entities)
        response == Authorizer_is_authorized(r, policies, unsealed)
    IN  IF response.decision = "Allow"
        THEN Ok(AuthWitness(A))
        ELSE Err("AuthDenied", response.diagnostics)

\* is_authorized::<A>(principal, resource, entities, policies)
is_authorized(A, principal, resource, entities, policies) ==
    LET r == Request(principal, action(A), resource, "empty")
        unsealed == unwrap(entities)
        response == Authorizer_is_authorized(r, policies, unsealed)
    IN  IF response.decision = "Allow"
        THEN Ok(AuthWitness(A))
        ELSE Err("AuthDenied", response.diagnostics)

---------------------------------------------------------------------------
(* The calls.  A call is a record: the method, its argument, the store it  *)
(* leaves and what it returns.                                             *)

Call(op, arg, S, ret) == [op |-> op, arg |-> arg, self |-> S, ret |-> ret]

call_euids == Call("euids", "self", self, euids(self))

call_as_entities == Call("as_entities", "schema", self, as_entities(self))

call_fresh_euid(ty, T) ==
    LET r == fresh_euid(self, ty, T)
    IN  Call("fresh_euid", [ty |-> ty, T |-> T], r.self, r.ret)

call_insert_user(e) == Call("insert_user", e, insert_user(self, e), Ok("unit"))

call_insert_team(e) == Call("insert_team", e, insert_team(self, e), Ok("unit"))

call_insert_list(e) == Call("insert_list", e, insert_list(self, e), Ok("unit"))

call_delete_entity(r) ==
    LET d == delete_entity(self, r) IN Call("delete_entity", r, d.self, d.ret)

call_get_user(euid) == Call("get_user", euid, self, get_user(self, euid))

call_get_team(euid) == Call("get_team", euid, self, get_team(self, euid))

call_get_list(euid) == Call("get_list", euid, self, get_list(self, euid))

\* the mutable accessors: the caller writes through the borrow it is handed
call_get_user_mut(euid, ps) ==
    LET r == get_user_mut(self, euid)
    IN  Call("get_user_mut", euid,
             IF r.ok THEN [self EXCEPT !.users[euid] = set_parents(@, ps)] ELSE self, r)

call_get_team_mut(euid, ps) ==
    LET r == get_team_mut(self, euid)
    IN  Call("get_team_mut", euid,
             IF r.ok THEN [self EXCEPT !.teams[euid] = set_parents(@, ps)] ELSE self, r)

call_get_user_or_team_mut(euid, ps) ==
    LET r == get_user_or_team_mut(self, euid)
    IN  Call("get_user_or_team_mut", euid,
             CASE r.map = "users" -> [self EXCEPT !.users[euid] = set_parents(@, ps)]
               [] r.map = "teams" -> [self EXCEPT !.teams[euid] = set_parents(@, ps)]
               [] OTHER -> self,
             r.ret)

call_get_list_mut(euid, rd) ==
    LET r == get_list_mut(self, euid)
    IN  Call("get_list_mut", euid,
             IF r.ok THEN [self EXCEPT !.lists[euid] = set_readers(@, rd)] ELSE self, r)

\* the signatures with insert_list borrowing its proof (`_proof: &impl CreateList`)
Demands_insert_list_borrows(op) ==
    CASE op = "unwrap"               -> [cap |-> "ReadAll",       by_value |-> TRUE]
      [] op = "euids"                -> [cap |-> "ReadAll",       by_value |-> TRUE]
      [] op = "insert_user"          -> [cap |-> "CreateUser",    by_value |-> TRUE]
      [] op = "insert_team"          -> [cap |-> "CreateTeam",    by_value |-> FALSE]
      [] op = "insert_list"          -> [cap |-> "CreateList",    by_value |-> FALSE]
      [] op = "delete_entity"        -> [cap |-> "Delete",        by_value |-> TRUE]
      [] op = "get_user"             -> [cap |-> "ReadUser",      by_value |-> TRUE]
      [] op = "get_user_mut"         -> [cap |-> "WriteUser",     by_value |-> TRUE]
      [] op = "get_team"             -> [cap |-> "ReadTeam",      by_value |-> TRUE]
      [] op = "get_team_mut"         -> [cap |-> "WriteTeam",     by_value |-> TRUE]
      [] op = "get_user_or_team_mut" -> [cap |-> "WriteTeamUser", by_value |-> TRUE]
      [] op = "get_list"             -> [cap |-> "ReadList",      by_value |-> FALSE]
      [] op = "get_list_mut"         -> [cap |-> "WriteList",     by_value |-> FALSE]

\* The proof each method's signature demands, and whether it takes it by
\* value (`impl Cap`, the proof is moved in) or borrows it (`&impl Cap`).
Demands(op) ==
    CASE op = "unwrap"               -> [cap |-> "ReadAll",       by_value |-> TRUE]
      [] op = "euids"                -> [cap |-> "ReadAll",       by_value |-> TRUE]
      [] op = "insert_user"          -> [cap |-> "CreateUser",    by_value |-> TRUE]
      [] op = "insert_team"          -> [cap |-> "CreateTeam",    by_value |-> FALSE]
      [] op = "insert_list"          -> [cap |-> "CreateList",    by_value |-> TRUE]
      [] op = "delete_entity"        -> [cap |-> "Delete",        by_value |-> TRUE]
      [] op = "get_user"             -> [cap |-> "ReadUser",      by_value |-> TRUE]
      [] op = "get_user_mut"         -> [cap |-> "WriteUser",     by_value |-> TRUE]
      [] op = "get_team"             -> [cap |-> "ReadTeam",      by_value |-> TRUE]
      [] op = "get_team_mut"         -> [cap |-> "WriteTeam",     by_value |-> TRUE]
      [] op = "get_user_or_team_mut" -> [cap |-> "WriteTeamUser", by_value |-> TRUE]
      [] op = "get_list"             -> [cap |-> "ReadList",      by_value |-> FALSE]
      [] op = "get_list_mut"         -> [cap |-> "WriteList",     by_value |-> FALSE]

Guarded == {"unwrap", "euids", "insert_user", "insert_team", "insert_list",
            "delete_entity", "get_user", "get_user_mut", "get_team", "get_team_mut",
            "get_user_or_team_mut", "get_list", "get_list_mut"}

RemoveAt(q, i) == SubSeq(q, 1, i - 1) \o SubSeq(q, i + 1, Len(q))

NoProof == [marker |-> "none", resource |-> APPLICATION_TINY_TODO, decision |-> "none"]

Commit(S) ==
    /\ users' = S.users
    /\ teams' = S.teams
    /\ lists' = S.lists
    /\ app' = S.app
    /\ uid' = S.uid

---------------------------------------------------------------------------
(* The initial state: EntityStore::default(), a caller that owns nothing.  *)

Init ==
    /\ users = Default.users
    /\ teams = Default.teams
    /\ lists = Default.lists
    /\ app = Default.app
    /\ uid = Default.uid
    /\ proofs = << >>
    /\ bundles = {}
    /\ last = [op |-> "default", arg |-> "none", ret |-> Ok("unit"), proof |-> NoProof]
    /\ minted = << >>
    /\ kept = EmptyMap
    /\ gone = {}

---------------------------------------------------------------------------
(* Spec: the caller of the crate.  It calls a proof-guarded method with a  *)
(* proof it owns whose type implements the demanded capability; a proof    *)
(* taken by value is gone after the call.  insert_user, get_user,          *)
(* get_user_mut, get_team and get_team_mut are not among its steps: no     *)
(* AuthWitness<A> implements CreateUser, ReadUser, WriteUser, ReadTeam or  *)
(* WriteTeam, so this caller has nothing to call them with.                *)

Principal == {UserX, UserY}
Resource == {APPLICATION_TINY_TODO} \cup ListUid

ByCaller(c, bs) ==
    \E i \in 1..Len(proofs) :
        /\ Demands(c.op).cap \in impls(proofs[i].marker)
        /\ Commit(c.self)
        /\ last' = [op |-> c.op, arg |-> c.arg, ret |-> c.ret, proof |-> proofs[i]]
        /\ proofs' = IF Demands(c.op).by_value THEN RemoveAt(proofs, i) ELSE proofs
        /\ bundles' = bs
        /\ UNCHANGED <<minted, kept, gone>>

Unguarded(c, bs) ==
    /\ Commit(c.self)
    /\ last' = [op |-> c.op, arg |-> c.arg, ret |-> c.ret, proof |-> NoProof]
    /\ bundles' = bs
    /\ UNCHANGED <<proofs, minted, kept, gone>>

CallerAsEntities ==
    /\ Cardinality(bundles) < MaxBundles
    /\ Unguarded(call_as_entities, bundles \cup {call_as_entities.ret})

CallerIsAuthorized ==
    \E A \in Action, principal \in Principal, resource \in Resource,
       entities \in bundles, policies \in PolicySet :
        LET ret == is_authorized(A, principal, resource, entities, policies)
            r == Request(principal, action(A), resource, "empty")
            decision == Authorizer_is_authorized(r, policies, unwrap(entities)).decision
        IN  /\ Len(proofs) < MaxProofs
            /\ proofs' = IF ret.ok
                         THEN Append(proofs, [marker |-> ret.val.marker,
                                              resource |-> resource,
                                              decision |-> decision])
                         ELSE proofs
            /\ bundles' = bundles \ {entities}
            /\ last' = [op |-> "is_authorized",
                        arg |-> [A |-> A, principal |-> principal, resource |-> resource,
                                 policies |-> policies],
                        ret |-> ret, proof |-> InternalProof]
            /\ UNCHANGED <<users, teams, lists, app, uid, minted, kept, gone>>

\* a proof the caller owns goes out of scope
CallerDropsProof ==
    \E i \in 1..Len(proofs) :
        /\ proofs' = RemoveAt(proofs, i)
        /\ last' = [op |-> "drop", arg |-> "proof", ret |-> Ok("unit"), proof |-> proofs[i]]
        /\ UNCHANGED <<users, teams, lists, app, uid, bundles, minted, kept, gone>>

CallerUnwrap ==
    \E b \in bundles : ByCaller(Call("unwrap", "bundle", self, unwrap(b)), bundles \ {b})

CallerEuids == ByCaller(call_euids, bundles)

\* the fresh ids a caller asks for: fresh_euid::<T>(ty)
FreshRequest == {[ty |-> TYPE_LIST, T |-> "ListUid"], [ty |-> TYPE_TEAM, T |-> "TeamUid"],
                 [ty |-> TYPE_USER, T |-> "UserOrTeamUid"], [ty |-> TYPE_TEAM, T |-> "ListUid"]}

CallerFreshEuid ==
    \E q \in FreshRequest :
        /\ uid < MaxUid
        /\ Unguarded(call_fresh_euid(q.ty, q.T), bundles)

CallerInsertTeam == \E e \in Team : ByCaller(call_insert_team(e), bundles)

CallerInsertList == \E e \in List : ByCaller(call_insert_list(e), bundles)

CallerDeleteEntity ==
    \E r \in EntityUid \cup {APPLICATION_TINY_TODO} : ByCaller(call_delete_entity(r), bundles)

CallerGetList == \E euid \in ListUid : ByCaller(call_get_list(euid), bundles)

CallerGetListMut ==
    \E euid \in ListUid, rd \in {TeamX, Team0} : ByCaller(call_get_list_mut(euid, rd), bundles)

CallerGetUserOrTeamMut ==
    \E euid \in UserOrTeamUid, ps \in {{}, {TeamX}} :
        ByCaller(call_get_user_or_team_mut(euid, ps), bundles)

Next ==
    \/ CallerAsEntities
    \/ CallerIsAuthorized
    \/ CallerDropsProof
    \/ CallerUnwrap
    \/ CallerEuids
    \/ CallerFreshEuid
    \/ CallerInsertTeam
    \/ CallerInsertList
    \/ CallerDeleteEntity
    \/ CallerGetList
    \/ CallerGetListMut
    \/ CallerGetUserOrTeamMut

Spec == Init /\ [][Next]_vars

---------------------------------------------------------------------------
(* StoreSpec: every method of the store, called directly.  The observers   *)
(* minted, kept and gone follow the calls.                                 *)

Inserts == {"insert_user", "insert_team", "insert_list"}
MutableGets == {"get_user_mut", "get_team_mut", "get_user_or_team_mut", "get_list_mut"}

\* Each observer follows one entry at a time, any one: at an insert (a delete) it
\* either turns to the new entry or stays with the one it follows.
Follow(m, k, v) == {Remove(m, k), Put(EmptyMap, k, v)}

Note(g, r) == {g \ {r}, {r}}

Direct(c) ==
    /\ Commit(c.self)
    /\ last' = [op |-> c.op, arg |-> c.arg, ret |-> c.ret, proof |-> NoProof]
    /\ minted' = IF c.op = "fresh_euid" THEN Append(minted, c.ret.val.id) ELSE minted
    /\ kept' \in CASE c.op \in Inserts -> Follow(kept, c.arg.uid, c.arg)
                   [] c.op = "delete_entity" /\ c.ret.ok -> {Remove(kept, c.arg)}
                   [] c.op \in MutableGets /\ c.ret.ok -> {Remove(kept, c.arg)}
                   [] OTHER -> {kept}
    /\ gone' \in CASE c.op \in Inserts -> {gone \ {c.arg.uid}}
                   [] c.op = "delete_entity" /\ c.ret.ok -> Note(gone, c.arg)
                   [] OTHER -> {gone}
    /\ UNCHANGED <<proofs, bundles>>

StoreEuids == Direct(call_euids)

StoreAsEntities == Direct(call_as_entities)

StoreFreshEuid ==
    \E q \in FreshRequest :
        /\ uid < MaxUid
        /\ Direct(call_fresh_euid(q.ty, q.T))

StoreInsertUser == \E e \in User : Direct(call_insert_user(e))

StoreInsertTeam == \E e \in Team : Direct(call_insert_team(e))

StoreInsertList == \E e \in List : Direct(call_insert_list(e))

StoreDeleteEntity ==
    \E r \in EntityUid \cup {APPLICATION_TINY_TODO} : Direct(call_delete_entity(r))

StoreGetUser == \E euid \in UserUid : Direct(call_get_user(euid))

StoreGetUserMut ==
    \E euid \in UserUid, ps \in {{}, {TeamX}} : Direct(call_get_user_mut(euid, ps))

StoreGetTeam == \E euid \in TeamUid : Direct(call_get_team(euid))

StoreGetTeamMut ==
    \E euid \in TeamUid, ps \in {{}, {TeamX}} : Direct(call_get_team_mut(euid, ps))

StoreGetUserOrTeamMut ==
    \E euid \in UserOrTeamUid, ps \in {{}, {TeamX}} :
        Direct(call_get_user_or_team_mut(euid, ps))

StoreGetList == \E euid \in ListUid : Direct(call_get_list(euid))

StoreGetListMut ==
    \E euid \in ListUid, rd \in {TeamX, Team0} : Direct(call_get_list_mut(euid, rd))

StoreNext ==
    \/ StoreEuids
    \/ StoreAsEntities
    \/ StoreFreshEuid
    \/ StoreInsertUser
    \/ StoreInsertTeam
    \/ StoreInsertList
    \/ StoreDeleteEntity
    \/ StoreGetUser
    \/ StoreGetUserMut
    \/ StoreGetTeam
    \/ StoreGetTeamMut
    \/ StoreGetUserOrTeamMut
    \/ StoreGetList
    \/ StoreGetListMut

StoreSpec == Init /\ [][StoreNext]_vars

---------------------------------------------------------------------------
(* A store read back from its persisted form.  The derived Deserialize     *)
(* fills users, teams and lists from the record and sets uid, which is      *)
(* #[serde(skip)], to its default 0.  The maps are keyed by the generic     *)
(* EntityUid, so a record may file an entity under any key, also one key    *)
(* in two maps.                                                            *)

\* the lists of a persisted record are named Format(0) .. Format(MaxLoaded - 1)
MaxLoaded == 2

UserEntry == [uid |-> UserX, parents |-> {}]
TeamEntry == [uid |-> TeamX, parents |-> {}]
ListEntry(n) == [uid |-> from_type_name_and_id(TYPE_LIST, Format(n)), owner |-> UserX,
                 readers |-> TeamX, editors |-> TeamX]

\* a team filed under the key a user is filed under
PersistedUsers == Put(EmptyMap, UserX, UserEntry)
PersistedTeams == Put(EmptyMap, UserX, TeamEntry)
PersistedLists ==
    [k \in {from_type_name_and_id(TYPE_LIST, Format(n)) : n \in 0..(MaxLoaded - 1)} |->
        ListEntry(CHOOSE n \in 0..(MaxLoaded - 1) : Format(n) = k.id)]

\* serde: Deserialize for EntityStore
Deserialize(record) ==
    [users |-> record.users, teams |-> record.teams, lists |-> record.lists,
     app |-> record.app, uid |-> 0]

\* the records a store is read back from: one of a store nothing was put in, one
\* that holds a user, a team and MaxLoaded lists
Persisted ==
    {[users |-> EmptyMap, teams |-> EmptyMap, lists |-> EmptyMap, app |-> Application],
     [users |-> PersistedUsers, teams |-> PersistedTeams, lists |-> PersistedLists,
      app |-> Application]}

LoadedInit ==
    /\ \E record \in Persisted :
          LET S == Deserialize(record)
          IN  /\ users = S.users
              /\ teams = S.teams
              /\ lists = S.lists
              /\ app = S.app
              /\ uid = S.uid
    /\ proofs = << >>
    /\ bundles = {}
    /\ last = [op |-> "deserialize", arg |-> "none", ret |-> Ok("unit"), proof |-> NoProof]
    /\ minted = << >>
    /\ kept = EmptyMap
    /\ gone = {}

\* the caller of Spec, on a store read back from its persisted form
LoadedSpec == LoadedInit /\ [][Next]_vars

\* the methods of StoreSpec, on a store read back from its persisted form
LoadedStoreSpec == LoadedInit /\ [][StoreNext]_vars

---------------------------------------------------------------------------
(* The properties.  The two tables below are the ones the design states    *)
(* (what each method demands, what each action grants); the model's own    *)
(* Demands and impls are read off the signatures and the impl blocks.      *)

Demanded(op) ==
    CASE op \in {"unwrap", "euids"}    -> "ReadAll"
      [] op = "insert_user"            -> "CreateUser"
      [] op = "insert_team"            -> "CreateTeam"
      [] op = "insert_list"            -> "CreateList"
      [] op = "delete_entity"          -> "Delete"
      [] op = "get_user"               -> "ReadUser"
      [] op = "get_user_mut"           -> "WriteUser"
      [] op = "get_team"               -> "ReadTeam"
      [] op = "get_team_mut"           -> "WriteTeam"
      [] op = "get_user_or_team_mut"   -> "WriteTeamUser"
      [] op = "get_list"               -> "ReadList"
      [] op = "get_list_mut"           -> "WriteList"

Granted(A) ==
    CASE A = "CreateList" -> {"CreateList", "CreateTeam"}
      [] A = "GetList"    -> {"ReadList"}
      [] A = "GetLists"   -> {"ReadAll"}
      [] A \in {"UpdateList", "CreateTask", "UpdateTask", "DeleteTask"} -> {"WriteList"}
      [] A = "DeleteList" -> {"Delete"}
      [] A = "EditShare"  -> {"WriteTeamUser", "ReadList"}

C2_ProofIffAllow ==
    [][(last'.op = "is_authorized" /\ bundles' # bundles) =>
        LET a == last'.arg
            b == CHOOSE x \in bundles : x \notin bundles'
            response == Authorizer_is_authorized(
                            Request(a.principal, action(a.A), a.resource, "empty"),
                            a.policies, unwrap(b))
        IN  /\ last'.ret.ok <=> response.decision = "Allow"
            /\ last'.ret.ok =>
                  /\ last'.ret.val = AuthWitness(a.A)
                  /\ Len(proofs') = Len(proofs) + 1
                  /\ proofs'[Len(proofs')].marker = a.A
            /\ ~last'.ret.ok =>
                  /\ last'.ret.err = "AuthDenied"
                  /\ last'.ret.val = response.diagnostics
                  /\ proofs' = proofs]_vars

C2_Witness ==
    /\ last.op = "is_authorized"
    /\ ~last.ret.ok
    /\ last.ret.val = {"forbid_y"}

\* the capabilities a proof can be presented for
Satisfies(proof) == {cap \in Capability : cap \in impls(proof.marker)}

\* C3: the capabilities a proof for an action satisfies are exactly those the fixed
\* table lists for the action, no more and no fewer, for every proof the gateway
\* has returned.
C3_ActionCapabilityTable ==
    \A i \in 1..Len(proofs) : Satisfies(proofs[i]) = Granted(proofs[i].marker)

C3_Witness ==
    /\ last.op = "get_list"
    /\ last.ret.ok
    /\ last.proof.marker = "EditShare"

\* C4: a get_user / get_team / get_list on the id of an inserted entity returns that
\* entity, as long as the id was not deleted, inserted again or handed out by a
\* mutable accessor since.
C4_GetReturnsInserted ==
    (last.op \in {"get_user", "get_team", "get_list"} /\ last.arg \in DOMAIN kept) =>
        (last.ret.ok /\ last.ret.val = kept[last.arg])

C4_Witness ==
    /\ last.op = "get_list"
    /\ last.arg \in DOMAIN kept
    /\ DOMAIN users # {}
    /\ DOMAIN teams # {}

\* C5: after delete_entity(id) returned Ok, every accessor called on id returns
\* no-such-entity until an insert stores an entity under id again.
C5_DeletedStaysAbsent ==
    (last.op \in {"get_user", "get_team", "get_list"} \cup MutableGets /\ last.arg \in gone) =>
        (~last.ret.ok /\ last.ret.err = "NoSuchEntity")

C5_Witness ==
    /\ last.op = "get_user_or_team_mut"
    /\ last.arg \in gone

\* the number a textual id spells, among the values the counter has passed
IdNum(text) == CHOOSE n \in 0..uid : Format(n) = text

\* C6: the ids fresh_euid generates are strictly increasing as numbers (hence
\* pairwise distinct) and all lie below the counter, whatever inserts and deletes
\* come in between: delete_entity never takes the counter back.
C6_FreshIdsIncrease ==
    /\ \A i \in 1..Len(minted) : \E n \in 0..(uid - 1) : Format(n) = minted[i]
    /\ \A i, j \in 1..Len(minted) : i < j => IdNum(minted[i]) < IdNum(minted[j])

C6_Witness ==
    /\ minted = <<"0", "1">>
    /\ gone # {}
    /\ last.op = "insert_list"

\* C7: the ids in the bundle as_entities returns are the ids euids yields on the
\* store it was taken from: the keys of the three maps and the application's id.
C7_SnapshotComplete ==
    last.op = "as_entities" =>
        /\ EntityIds(unwrap(last.ret)) = euids(self)
        /\ euids(self) = (DOMAIN users) \cup (DOMAIN teams) \cup (DOMAIN lists)
                            \cup {APPLICATION_TINY_TODO}

C7_Witness ==
    /\ last.op = "as_entities"
    /\ DOMAIN users # {}
    /\ DOMAIN teams # {}
    /\ DOMAIN lists # {}

\* C8: the keys of users are of kind User, those of teams of kind Team, those of
\* lists of kind List; so the three key sets and the application's id are pairwise
\* disjoint.
C8_KeysMatchTheirMap ==
    /\ \A k \in DOMAIN users : k.ty = TYPE_USER
    /\ \A k \in DOMAIN teams : k.ty = TYPE_TEAM
    /\ \A k \in DOMAIN lists : k.ty = TYPE_LIST
    /\ (DOMAIN users) \cap (DOMAIN teams) = {}
    /\ (DOMAIN users) \cap (DOMAIN lists) = {}
    /\ (DOMAIN teams) \cap (DOMAIN lists) = {}
    /\ app.uid \notin (DOMAIN users) \cup (DOMAIN teams) \cup (DOMAIN lists)

C8_Witness ==
    /\ DOMAIN users # {}
    /\ DOMAIN teams # {}
    /\ DOMAIN lists # {}

\* the ids an entity holds, each with the maps it has to be found in
Resolves(e) ==
    CASE e.uid.ty = TYPE_LIST ->
            /\ e.owner \in DOMAIN users
            /\ e.readers \in (DOMAIN users) \cup (DOMAIN teams)
            /\ e.editors \in (DOMAIN users) \cup (DOMAIN teams)
      [] OTHER -> e.parents \subseteq DOMAIN teams

\* C9: when an insert installs an entity, every id the entity holds names an entity
\* of the right kind that is in the store.
C9_ReferencesResolveAtInsert ==
    last.op \in Inserts => Resolves(last.arg)

\* C10: a successful delete_entity removes the entity that was the resource of the
\* is_authorized::<DeleteList> call its proof came from, a list.
C10_DeleteOnlyAuthorizedResource ==
    (last.op = "delete_entity" /\ last.ret.ok) =>
        /\ last.proof.marker = "DeleteList"
        /\ last.arg = last.proof.resource
        /\ last.arg.ty = TYPE_LIST

\* C11: when is_authorized returns a proof, the bundle its decision was evaluated
\* against is the snapshot of the store as it is at that moment: nothing changed the
\* store between the snapshot and the decision.
C11_DecisionOnCurrentStore ==
    [][(last'.op = "is_authorized" /\ last'.ret.ok /\ bundles' # bundles) =>
        LET entities == CHOOSE x \in bundles : x \notin bundles'
        IN  /\ UNCHANGED <<users, teams, lists, app, uid>>
            /\ entities = as_entities(self)]_step

\* the number of entries in the three maps
Entries(S) ==
    Cardinality(DOMAIN S.users) + Cardinality(DOMAIN S.teams) + Cardinality(DOMAIN S.lists)

\* C12: delete_entity on an id that is a key of none of the three maps returns
\* no-such-entity and changes nothing; on an id that is a key it returns Ok, that
\* one entry is gone, and every other entry, the application and the counter are as
\* they were.
C12_DeleteFrame ==
    [][last'.op = "delete_entity" =>
        LET r == last'.arg
            present == r \in (DOMAIN users) \cup (DOMAIN teams) \cup (DOMAIN lists)
        IN  /\ app' = app
            /\ uid' = uid
            /\ ~present =>
                  /\ last'.ret = Err("NoSuchEntity", r)
                  /\ UNCHANGED <<users, teams, lists>>
            /\ present =>
                  /\ last'.ret = Ok("unit")
                  /\ users' \in {users, Remove(users, r)}
                  /\ teams' \in {teams, Remove(teams, r)}
                  /\ lists' \in {lists, Remove(lists, r)}
                  /\ Entries([users |-> users', teams |-> teams', lists |-> lists'])
                        = Entries(self) - 1]_step

C12_Witness ==
    /\ last.op = "delete_entity"
    /\ last.ret = Err("NoSuchEntity", last.arg)
    /\ last.arg.ty = TYPE_LIST
    /\ DOMAIN users # {}
    /\ DOMAIN teams # {}

\* C13: the store always holds the one application entity, euids always yields its
\* id, and delete_entity on that id returns no-such-entity and removes nothing.
C13_ApplicationSingleton ==
    /\ app = Application
    /\ app.uid \in euids(self)
    /\ last.op = "euids" => APPLICATION_TINY_TODO \in last.ret
    /\ (last.op = "delete_entity" /\ last.arg = APPLICATION_TINY_TODO) =>
          last.ret = Err("NoSuchEntity", APPLICATION_TINY_TODO)

C13_Witness ==
    /\ last.op = "delete_entity"
    /\ last.arg = APPLICATION_TINY_TODO
    /\ DOMAIN lists # {}
    /\ DOMAIN users # {}

\* C14: get_user_or_team_mut hands out the user filed under the id whenever users
\* has the id, also when teams has it too; the team when only teams has it;
\* no-such-entity exactly when neither has it.  What it hands out is an entry of
\* users or of teams, never of lists, and the write through it lands in that map.
C14_UsersShadowTeams ==
    [][last'.op = "get_user_or_team_mut" =>
        LET id == last'.arg
        IN  /\ id \in DOMAIN users =>
                  /\ last'.ret = Ok(users[id])
                  /\ teams' = teams
            /\ (id \notin DOMAIN users /\ id \in DOMAIN teams) =>
                  /\ last'.ret = Ok(teams[id])
                  /\ users' = users
            /\ ~last'.ret.ok <=> id \notin (DOMAIN users) \cup (DOMAIN teams)
            /\ ~last'.ret.ok => last'.ret = Err("NoSuchEntity", id)
            /\ lists' = lists]_step

\* the user-or-team accessor was called on an id both maps hold and wrote to the user
C14_Witness ==
    /\ last.op = "get_user_or_team_mut"
    /\ last.arg \in (DOMAIN users) \cap (DOMAIN teams)
    /\ last.ret.ok
    /\ users[last.arg] # last.ret.val

\* m2 is m after an insert of e: e is filed under its id, at most one key is new,
\* and every other entry is as it was
Filed(m, m2, e) ==
    /\ e.uid \in DOMAIN m2
    /\ m2[e.uid] = e
    /\ DOMAIN m2 = (DOMAIN m) \cup {e.uid}
    /\ Cardinality(DOMAIN m2) <= Cardinality(DOMAIN m) + 1
    /\ \A k \in (DOMAIN m) \ {e.uid} : m2[k] = m[k]

\* C15: insert_user, insert_team and insert_list file the entity under its id in
\* their own map, in place of any entity that was there, and leave every other entry
\* of that map, the two other maps, the application and the counter as they were.
C15_InsertFrame ==
    [][last'.op \in Inserts =>
        /\ app' = app
        /\ uid' = uid
        /\ last'.op = "insert_user" =>
              Filed(users, users', last'.arg) /\ UNCHANGED <<teams, lists>>
        /\ last'.op = "insert_team" =>
              Filed(teams, teams', last'.arg) /\ UNCHANGED <<users, lists>>
        /\ last'.op = "insert_list" =>
              Filed(lists, lists', last'.arg) /\ UNCHANGED <<users, teams>>]_step

\* an insert_list replaced the list a persisted record held under the same id, next
\* to a second list
C15_Witness ==
    /\ last.op = "insert_list"
    /\ Cardinality(DOMAIN lists) = 2
    /\ lists[last.arg.uid] = last.arg
    /\ last.arg # ListEntry(0)
    /\ DOMAIN users # {}

\* C16: the identifier a fresh_euid call returns is a key of none of the three maps
\* and is not the application's id, whatever the store holds and wherever the counter
\* stands: on a store read back from a record that holds lists "0", "1", ... with the
\* counter back at 0, the call passes over the ids that are taken.
C16_FreshIdUnused ==
    (last.op = "fresh_euid" /\ last.ret.ok) =>
        /\ last.ret.val \notin (DOMAIN users) \cup (DOMAIN teams) \cup (DOMAIN lists)
        /\ last.ret.val # app.uid
        /\ last.ret.val.ty = last.arg.ty

\* the first fresh_euid on a record holding lists "0" and "1" returned List::"2"
C16_Witness ==
    /\ last.op = "fresh_euid"
    /\ last.ret = Ok(from_type_name_and_id(TYPE_LIST, Format(MaxLoaded)))
    /\ Cardinality(DOMAIN lists) = MaxLoaded
    /\ uid = MaxLoaded + 1

\* C19: a fresh_euid call returns after at most N + 2 rounds of its loop on a store
\* of N entities, and the counter has then advanced by one for each round, also when
\* the call returns the kind-mismatch error; the maps are as they were.
C19_FreshLoopBounded ==
    [][last'.op = "fresh_euid" =>
        LET r == fresh_euid(self, last'.arg.ty, last'.arg.T)
        IN  /\ r.iterations >= 1
            /\ r.iterations <= Entries(self) + 2
            /\ uid' = uid + r.iterations
            /\ UNCHANGED <<users, teams, lists, app>>]_step

\* the first fresh_euid of a store went round once for each list it holds, then once more
C19_Witness ==
    /\ last.op = "fresh_euid"
    /\ Len(minted) = 1
    /\ Cardinality(DOMAIN lists) >= 1
    /\ uid = Cardinality(DOMAIN lists) + 1
    /\ DOMAIN users # {}

\* the methods the design says take their proof by value, with the action whose
\* proof they take, and the methods it says borrow it
OneShot == {"delete_entity", "insert_list"}
TakenBy(op) == IF op = "delete_entity" THEN "DeleteList" ELSE "CreateList"
Borrowing == {"insert_team", "get_list", "get_list_mut"}

\* C17: the caller gains a proof only from an is_authorized call that returns one,
\* one proof per Allow; a delete_entity (whether it returns Ok or no-such-entity) or
\* an insert_list takes a proof the caller owns, of DeleteList or of CreateList, and
\* the caller no longer owns it; an insert_team, get_list or get_list_mut is made
\* with a proof the caller owns and still owns afterwards, so it comes before the
\* call that takes that proof.
C17_ProofsByValueAreOneShot ==
    [][/\ Len(proofs') > Len(proofs) =>
             /\ last'.op = "is_authorized"
             /\ last'.ret.ok
             /\ proofs' = Append(proofs, proofs'[Len(proofs')])
       /\ last'.op \in OneShot =>
             /\ last'.proof.marker = TakenBy(last'.op)
             /\ \E i \in 1..Len(proofs) :
                   /\ proofs[i] = last'.proof
                   /\ proofs' = RemoveAt(proofs, i)
       /\ last'.op \in Borrowing =>
             /\ \E i \in 1..Len(proofs) : proofs[i] = last'.proof
             /\ proofs' = proofs]_step

\* an insert_list took the CreateList proof that an insert_team had borrowed before
C17_Witness ==
    /\ last.op = "insert_list"
    /\ last.proof.marker = "CreateList"
    /\ proofs = << >>
    /\ DOMAIN teams # {}

\* the capabilities only insert_user, get_user, get_user_mut, get_team and
\* get_team_mut demand
UserTeamOnly == {"CreateUser", "ReadUser", "WriteUser", "ReadTeam", "WriteTeam"}
UserTeamOnlyOps == {"insert_user", "get_user", "get_user_mut", "get_team", "get_team_mut"}

\* the keys two maps share under which they hold different entities
Changed(m, m2) == {k \in (DOMAIN m) \cap (DOMAIN m2) : m2[k] # m[k]}

\* C18, as stated: no proof the caller owns satisfies create-user, read-user,
\* write-user, read-team or write-team, and none of the five methods that demand them
\* is called; users never gains a key and loses one only in a delete_entity; an
\* entity of users or of teams changes only in a get_user_or_team_mut made under an
\* EditShare proof.
C18_OnlyEditShareChanges ==
    [][/\ \A i \in 1..Len(proofs') : Satisfies(proofs'[i]) \cap UserTeamOnly = {}
       /\ last'.op \notin UserTeamOnlyOps
       /\ DOMAIN users' \subseteq DOMAIN users
       /\ DOMAIN users' # DOMAIN users => last'.op = "delete_entity"
       /\ Changed(users, users') \cup Changed(teams, teams') # {} =>
             /\ last'.op = "get_user_or_team_mut"
             /\ last'.proof.marker = "EditShare"]_step

\* C18, amended: as above, but a team also changes when an insert_team made under a
\* CreateList proof files a team under the id of one that is there.
C18_EditShareOrInsertTeam ==
    [][/\ \A i \in 1..Len(proofs') : Satisfies(proofs'[i]) \cap UserTeamOnly = {}
       /\ last'.op \notin UserTeamOnlyOps
       /\ DOMAIN users' \subseteq DOMAIN users
       /\ DOMAIN users' # DOMAIN users => last'.op = "delete_entity"
       /\ Changed(users, users') # {} =>
             /\ last'.op = "get_user_or_team_mut"
             /\ last'.proof.marker = "EditShare"
       /\ Changed(teams, teams') # {} =>
             \/ /\ last'.op = "get_user_or_team_mut"
                /\ last'.proof.marker = "EditShare"
             \/ /\ last'.op = "insert_team"
                /\ last'.proof.marker = "CreateList"
                /\ Changed(teams, teams') = {last'.arg.uid}]_step

\* a user a persisted record held was changed through get_user_or_team_mut
C18_Witness ==
    /\ last.op = "get_user_or_team_mut"
    /\ last.proof.marker = "EditShare"
    /\ last.arg \in DOMAIN users
    /\ users[last.arg] # UserEntry

=============================================================================
